---------------------------- MODULE Spec2Model ----------------------------
(***************************************************************************)
(* Model of the web implementation of the native-audio plugin              *)
(* (src/src/web.ts, class NativeAudioWeb): the registry                    *)
(* AUDIO_ASSET_BY_ASSET_ID, the HTMLAudioElement behind every asset, the   *)
(* microtask queue that holds the continuations of `await this.stop(...)`  *)
(* and the media-element tasks of the browser (timeupdate, ended).         *)
(*                                                                         *)
(* Numbers: volume and playback rate are counted in quarters (4 = 1.0),    *)
(* positions in whole ticks of the media timeline.                         *)
(***************************************************************************)
EXTENDS Integers, Sequences, FiniteSets, TLC

-----------------------------------------------------------------------------
(* Bounds of the model *)

MaxHandles == 2        \* HTMLAudioElements alive at a time
MaxListeners == 2      \* 'ended' listeners armed on one element
MaxQueue == 1          \* suspended async calls (continuations in the microtask queue)
Duration == 2          \* length of every media resource, in ticks

-----------------------------------------------------------------------------
(* Program constants (Constant.swift, in quarters) *)

MinVolume == 0
MaxVolume == 4
MinRate == 1
MaxRate == 16
DefaultVolume == 4
DefaultRate == 4

-----------------------------------------------------------------------------
(* Values the caller can pass *)

NoAssetId == "<undefined>"      \* an assetId that is not a string (undefined, a number)
NoNumber == -1                  \* a volume / rate / time that is not a number (undefined)
NoHandle == 0                   \* the registry has no entry
NaN == -2                       \* audio.duration before the metadata is known
Infinity == -3                  \* audio.duration of a streaming resource

AssetIds == {"a", "", NoAssetId}
AssetPaths == {"", "x.mp3"}
Times == 0 .. (Duration - 1)
PreloadVolumes == {NoNumber, 0, 2, 6}
Volumes == {NoNumber, 2, 6}
Rates == {NoNumber, 2, 20}
Durations == {NaN, Infinity, Duration}
Handles == 1 .. MaxHandles

\* typeof x === 'string' / 'number'
IsString(x) == x # NoAssetId
IsNumber(x) == x # NoNumber
Bool2Int(b) == IF b THEN 1 ELSE 0

-----------------------------------------------------------------------------
VARIABLES
    AUDIO_ASSET_BY_ASSET_ID,  \* assetId -> handle of its audio element, NoHandle when absent
    audio,                    \* handle -> the HTMLAudioElement's state
    microtasks,               \* FIFO of suspended calls (after `await this.stop(options)`)
    last,                     \* the step just taken: operation, arguments, outcome
    stopRaced                 \* history: assetId -> the last control call issued on it
                              \* was a stop that overtook a suspended play or loop

vars == <<AUDIO_ASSET_BY_ASSET_ID, audio, microtasks, last, stopRaced>>

\* A new Audio(assetPath) with the settings of preload.
NewAudio(assetId) ==
    [assetId |-> assetId, paused |-> TRUE, loop |-> FALSE, currentTime |-> 0,
     volume |-> DefaultVolume, playbackRate |-> DefaultRate, listeners |-> 0]

Result(op, assetId, arg, err, ret) ==
    [op |-> op, assetId |-> assetId, arg |-> arg, err |-> err, ret |-> ret]

Init ==
    /\ AUDIO_ASSET_BY_ASSET_ID = [id \in AssetIds |-> NoHandle]
    /\ audio = [h \in Handles |-> NewAudio(NoAssetId)]
    /\ microtasks = <<>>
    /\ last = Result("init", NoAssetId, NoNumber, "none", NoNumber)
    /\ stopRaced = [id \in AssetIds |-> FALSE]

-----------------------------------------------------------------------------
(* HTMLMediaElement: what the element does when the plugin calls it *)

\* audio.play(): paused becomes false; an element whose playback has ended
\* is first rewound.
HTMLPlay(a) ==
    [a EXCEPT !.paused = FALSE,
              !.currentTime = IF a.currentTime = Duration /\ ~a.loop THEN 0 ELSE @]

\* audio.pause(): paused becomes true.
HTMLPause(a) == [a EXCEPT !.paused = TRUE]

\* The volume setter throws IndexSizeError outside [0,1].
VolumeAccepted(v) == v >= MinVolume /\ v <= MaxVolume

-----------------------------------------------------------------------------
(* Private helpers of NativeAudioWeb *)

checkAssetId(assetId) ==
    IF ~IsString(assetId) THEN "InvalidIdentifier"     \* 'assetId must be a string'
    ELSE IF assetId = "" THEN "InvalidIdentifier"      \* 'no assetId provided'
    ELSE "none"

\* getAudioAsset reporting a missing asset as a missing identifier.
getAudioAssetErr_WrongError(assetId) ==
    IF checkAssetId(assetId) # "none" THEN checkAssetId(assetId)
    ELSE IF AUDIO_ASSET_BY_ASSET_ID[assetId] = NoHandle THEN "InvalidIdentifier"
    ELSE "none"

\* The error getAudioAsset throws, "none" when it returns the asset.
getAudioAssetErr(assetId) ==
    IF checkAssetId(assetId) # "none" THEN checkAssetId(assetId)
    ELSE IF AUDIO_ASSET_BY_ASSET_ID[assetId] = NoHandle THEN "AssetNotFound"
    ELSE "none"

getAudioAsset(assetId) == AUDIO_ASSET_BY_ASSET_ID[assetId]

\* A play or loop call on the asset is suspended at its await.
InFlight(assetId) ==
    \E i \in 1 .. Len(microtasks) :
       microtasks[i].assetId = assetId /\ microtasks[i].op \in {"play", "loop"}

\* The body of stop(): pause, clear the loop flag, rewind.
stopAudio(a) == [HTMLPause(a) EXCEPT !.loop = FALSE, !.currentTime = 0]

\* playThen without `audio.currentTime = time`.
playThen_NoSeek(a, time) ==
    HTMLPlay([a EXCEPT !.loop = FALSE, !.listeners = @ + 1])

\* The continuation of play() after `await this.stop(options)`.
playThen(a, time) ==
    HTMLPlay([a EXCEPT !.loop = FALSE, !.currentTime = time, !.listeners = @ + 1])

\* The continuation of loop() after `await this.stop(options)`.
loopThen(a) == HTMLPlay([a EXCEPT !.loop = TRUE])

\* preload without the `has(options.assetId)` test.
preloadErr_NoDuplicateCheck(assetId, assetPath, volume) ==
    IF assetPath = "" THEN "MissingAssetPath"
    ELSE IF IsNumber(volume) /\ volume # 0 /\ ~VolumeAccepted(volume) THEN "InvalidVolume"
    ELSE "none"

\* The error preload throws, "none" when it registers the asset.
preloadErr(assetId, assetPath, volume) ==
    IF AUDIO_ASSET_BY_ASSET_ID[assetId] # NoHandle THEN "DuplicateAsset"
    ELSE IF assetPath = "" THEN "MissingAssetPath"
    ELSE IF IsNumber(volume) /\ volume # 0 /\ ~VolumeAccepted(volume) THEN "InvalidVolume"
    ELSE "none"

\* `if (options.volume) audio.volume = options.volume`
preloadVolume(volume) ==
    IF IsNumber(volume) /\ volume # 0 THEN volume ELSE DefaultVolume

\* The error setVolume throws, "none" when it stores the volume.
setVolumeErr(assetId, volume) ==
    IF ~IsNumber(volume) THEN "MissingVolume"           \* 'no volume provided'
    ELSE IF getAudioAssetErr(assetId) # "none" THEN getAudioAssetErr(assetId)
    ELSE IF ~VolumeAccepted(volume) THEN "InvalidVolume"
    ELSE "none"

\* The error setRate throws, "none" when it stores the rate.
setRateErr(assetId, rate) ==
    IF ~IsNumber(rate) THEN "MissingRate"               \* 'no rate provided'
    ELSE getAudioAssetErr(assetId)

\* getDuration with the two tests in the other order: not-a-number is not
\* finite either.
getDurationErr_FiniteFirst(assetId, duration) ==
    IF getAudioAssetErr(assetId) # "none" THEN getAudioAssetErr(assetId)
    ELSE IF duration \in {NaN, Infinity} THEN "DurationUnavailable"
    ELSE IF duration = NaN THEN "NoDurationYet"
    ELSE "none"

\* The error getDuration throws when audio.duration reads `duration`,
\* "none" when it returns the duration.
getDurationErr(assetId, duration) ==
    IF getAudioAssetErr(assetId) # "none" THEN getAudioAssetErr(assetId)
    ELSE IF duration = NaN THEN "NoDurationYet"
    ELSE IF duration = Infinity THEN "DurationUnavailable"
    ELSE "none"

\* `found: !!this.getAudioAsset(...)`, false when getAudioAsset throws.
isPreloadedFound(assetId) == getAudioAssetErr(assetId) = "none"


-----------------------------------------------------------------------------
(* Garbage: an element that the registry does not hold, that is paused and  *)
(* that no suspended play or loop refers to can never be reached again.     *)
(* Its slot is free: it is kept in a fixed state and the next `new Audio`   *)
(* takes the lowest free slot.                                              *)

Referenced(h, registry, queue) ==
    \/ \E id \in AssetIds : registry[id] = h
    \/ \E i \in 1 .. Len(queue) : queue[i].h = h /\ queue[i].op \in {"play", "loop"}

Sweep(elements, registry, queue) ==
    [h \in Handles |->
        IF elements[h].paused /\ ~Referenced(h, registry, queue)
        THEN NewAudio(NoAssetId)
        ELSE elements[h]]

FreeHandles ==
    {h \in Handles :
        audio[h].paused /\ ~Referenced(h, AUDIO_ASSET_BY_ASSET_ID, microtasks)}

NewHandle == CHOOSE h \in FreeHandles : \A g \in FreeHandles : h <= g

-----------------------------------------------------------------------------
(* The public operations.  A call runs synchronously up to its first await. *)

\* The call throws before it changes anything.
Throw(op, assetId, arg, err) ==
    /\ last' = Result(op, assetId, arg, err, NoNumber)
    /\ UNCHANGED <<AUDIO_ASSET_BY_ASSET_ID, audio, microtasks, stopRaced>>

\* The call only reads.
Return(op, assetId, ret) ==
    /\ last' = Result(op, assetId, NoNumber, "none", ret)
    /\ UNCHANGED <<AUDIO_ASSET_BY_ASSET_ID, audio, microtasks, stopRaced>>

\* The call rewrites the asset's audio element and returns.
Update(op, assetId, arg, a) ==
    /\ audio' = [audio EXCEPT ![getAudioAsset(assetId)] = a]
    /\ last' = Result(op, assetId, arg, "none", NoNumber)
    /\ stopRaced' = [stopRaced EXCEPT ![assetId] = (op = "stop" /\ InFlight(assetId))]
    /\ UNCHANGED <<AUDIO_ASSET_BY_ASSET_ID, microtasks>>

\* The call runs stop() and suspends at `await this.stop(options)`; err is
\* what the awaited stop threw.
Suspend(op, assetId, arg, time, err) ==
    /\ Len(microtasks) < MaxQueue
    /\ microtasks' = Append(microtasks,
           [op |-> op, assetId |-> assetId, h |-> getAudioAsset(assetId),
            time |-> time, err |-> err])
    /\ last' = Result(op, assetId, arg, err, NoNumber)
    /\ IF err # "none"
       THEN UNCHANGED <<audio, stopRaced>>
       ELSE /\ audio' = [audio EXCEPT ![getAudioAsset(assetId)] = stopAudio(@)]
            /\ stopRaced' = [stopRaced EXCEPT ![assetId] = FALSE]
    /\ UNCHANGED AUDIO_ASSET_BY_ASSET_ID

\* 'ended' listeners the element will hold once the suspended play calls continue.
ListenersDue(h) ==
    audio[h].listeners
      + Cardinality({i \in 1 .. Len(microtasks) :
                        microtasks[i].op = "play" /\ microtasks[i].h = h})

\* preload that answers before it has stored the asset.
preload_RegistersLater(assetId, assetPath, volume) ==
    /\ assetId \in AssetIds
    /\ Throw("preload", assetId, volume, preloadErr(assetId, assetPath, volume))

preload(assetId, assetPath, volume) ==
    IF preloadErr(assetId, assetPath, volume) # "none"
    THEN Throw("preload", assetId, volume, preloadErr(assetId, assetPath, volume))
    ELSE /\ FreeHandles # {}
         /\ audio' = [audio EXCEPT ![NewHandle] =
                         [NewAudio(assetId) EXCEPT !.volume = preloadVolume(volume)]]
         /\ AUDIO_ASSET_BY_ASSET_ID' =
                [AUDIO_ASSET_BY_ASSET_ID EXCEPT ![assetId] = NewHandle]
         /\ last' = Result("preload", assetId, volume, "none", NoNumber)
         /\ stopRaced' = [stopRaced EXCEPT ![assetId] = FALSE]
         /\ UNCHANGED microtasks

stop(assetId) ==
    IF getAudioAssetErr(assetId) # "none"
    THEN Throw("stop", assetId, NoNumber, getAudioAssetErr(assetId))
    ELSE Update("stop", assetId, NoNumber, stopAudio(audio[getAudioAsset(assetId)]))

play(assetId, time) ==
    IF getAudioAssetErr(assetId) # "none"
    THEN Throw("play", assetId, time, getAudioAssetErr(assetId))
    ELSE /\ ListenersDue(getAudioAsset(assetId)) < MaxListeners
         /\ Suspend("play", assetId, time, IF IsNumber(time) THEN time ELSE 0, "none")

loop(assetId) ==
    IF getAudioAssetErr(assetId) # "none"
    THEN Throw("loop", assetId, NoNumber, getAudioAssetErr(assetId))
    ELSE Suspend("loop", assetId, NoNumber, 0, "none")

\* unload awaits stop: a throwing stop rejects unload one microtask later.
unload(assetId) ==
    /\ assetId \in AssetIds
    /\ Suspend("unload", assetId, NoNumber, 0, getAudioAssetErr(assetId))

\* pause that rewinds, as stop does.
pause_Rewinds(assetId) ==
    IF getAudioAssetErr(assetId) # "none"
    THEN Throw("pause", assetId, NoNumber, getAudioAssetErr(assetId))
    ELSE Update("pause", assetId, NoNumber, stopAudio(audio[getAudioAsset(assetId)]))

pause(assetId) ==
    IF getAudioAssetErr(assetId) # "none"
    THEN Throw("pause", assetId, NoNumber, getAudioAssetErr(assetId))
    ELSE Update("pause", assetId, NoNumber, HTMLPause(audio[getAudioAsset(assetId)]))

resume(assetId) ==
    IF getAudioAssetErr(assetId) # "none"
    THEN Throw("resume", assetId, NoNumber, getAudioAssetErr(assetId))
    ELSE Update("resume", assetId, NoNumber,
                IF audio[getAudioAsset(assetId)].paused
                THEN HTMLPlay(audio[getAudioAsset(assetId)])
                ELSE audio[getAudioAsset(assetId)])

setCurrentTime(assetId, time) ==
    IF getAudioAssetErr(assetId) # "none"
    THEN Throw("setCurrentTime", assetId, time, getAudioAssetErr(assetId))
    ELSE Update("setCurrentTime", assetId, time,
                [audio[getAudioAsset(assetId)] EXCEPT !.currentTime = time])

getCurrentTime(assetId) ==
    IF getAudioAssetErr(assetId) # "none"
    THEN Throw("getCurrentTime", assetId, NoNumber, getAudioAssetErr(assetId))
    ELSE Return("getCurrentTime", assetId, audio[getAudioAsset(assetId)].currentTime)

\* `duration` is what the element reports as audio.duration at the call.
getDuration(assetId, duration) ==
    IF getDurationErr(assetId, duration) # "none"
    THEN Throw("getDuration", assetId, duration, getDurationErr(assetId, duration))
    ELSE Return("getDuration", assetId, duration)

isPlaying(assetId) ==
    IF getAudioAssetErr(assetId) # "none"
    THEN Throw("isPlaying", assetId, NoNumber, getAudioAssetErr(assetId))
    ELSE Return("isPlaying", assetId, Bool2Int(~audio[getAudioAsset(assetId)].paused))

isPreloaded(assetId) ==
    /\ assetId \in AssetIds
    /\ Return("isPreloaded", assetId, Bool2Int(isPreloadedFound(assetId)))

\* `audio.volume = options.volume`
setVolumeThen(a, volume) == [a EXCEPT !.volume = volume]

setVolume(assetId, volume) ==
    IF setVolumeErr(assetId, volume) # "none"
    THEN Throw("setVolume", assetId, volume, setVolumeErr(assetId, volume))
    ELSE /\ audio' = [audio EXCEPT ![getAudioAsset(assetId)] = setVolumeThen(@, volume)]
         /\ last' = Result("setVolume", assetId, volume, "none", NoNumber)
         /\ UNCHANGED <<AUDIO_ASSET_BY_ASSET_ID, microtasks, stopRaced>>

\* `audio.playbackRate = options.rate`
setRateThen(a, rate) == [a EXCEPT !.playbackRate = rate]

setRate(assetId, rate) ==
    IF setRateErr(assetId, rate) # "none"
    THEN Throw("setRate", assetId, rate, setRateErr(assetId, rate))
    ELSE /\ audio' = [audio EXCEPT ![getAudioAsset(assetId)] = setRateThen(@, rate)]
         /\ last' = Result("setRate", assetId, rate, "none", NoNumber)
         /\ UNCHANGED <<AUDIO_ASSET_BY_ASSET_ID, microtasks, stopRaced>>

\* clearCache that empties the registry.
clearCache_DropsAssets ==
    /\ Len(microtasks) <= MaxQueue
    /\ AUDIO_ASSET_BY_ASSET_ID' = [id \in AssetIds |-> NoHandle]
    /\ last' = Result("clearCache", NoAssetId, NoNumber, "none", NoNumber)
    /\ UNCHANGED <<audio, microtasks, stopRaced>>

clearCache ==
    /\ Len(microtasks) <= MaxQueue
    /\ Return("clearCache", NoAssetId, NoNumber)

configure ==
    /\ Len(microtasks) <= MaxQueue
    /\ Throw("configure", NoAssetId, NoNumber, "UnsupportedOperation")

-----------------------------------------------------------------------------
(* Microtasks: the suspended calls continue in the order they suspended. *)

Continue(op) ==
    /\ microtasks # <<>>
    /\ Head(microtasks).op = op
    /\ microtasks' = Tail(microtasks)
    /\ last' = Result(op \o ".then", Head(microtasks).assetId, Head(microtasks).time,
                      Head(microtasks).err, Head(microtasks).h)
    /\ UNCHANGED stopRaced

playContinue ==
    /\ Continue("play")
    /\ audio' = [audio EXCEPT ![Head(microtasks).h] = playThen(@, Head(microtasks).time)]
    /\ UNCHANGED AUDIO_ASSET_BY_ASSET_ID

loopContinue ==
    /\ Continue("loop")
    /\ audio' = [audio EXCEPT ![Head(microtasks).h] = loopThen(@)]
    /\ UNCHANGED AUDIO_ASSET_BY_ASSET_ID

\* AUDIO_ASSET_BY_ASSET_ID.delete(options.assetId), unless the awaited stop threw.
\* unload without `AUDIO_ASSET_BY_ASSET_ID.delete(options.assetId)`.
unloadThen_KeepsKey(registry, task) == registry

unloadThen(registry, task) ==
    IF task.err # "none" THEN registry ELSE [registry EXCEPT ![task.assetId] = NoHandle]

unloadContinue ==
    /\ Continue("unload")
    /\ AUDIO_ASSET_BY_ASSET_ID' = unloadThen(AUDIO_ASSET_BY_ASSET_ID, Head(microtasks))
    /\ audio' = Sweep(audio, AUDIO_ASSET_BY_ASSET_ID', microtasks')

-----------------------------------------------------------------------------
(* Media-element tasks of the browser; a task runs when no microtask is left. *)

Task(op, h, arg, a) ==
    /\ microtasks = <<>>
    /\ audio' = Sweep([audio EXCEPT ![h] = a], AUDIO_ASSET_BY_ASSET_ID, microtasks)
    /\ last' = Result(op, audio[h].assetId, arg, "none", h)
    /\ UNCHANGED <<AUDIO_ASSET_BY_ASSET_ID, microtasks, stopRaced>>

\* The position advances; a looping element wraps at the end.
timeupdate(h) ==
    /\ ~audio[h].paused
    /\ \/ audio[h].currentTime + 1 < Duration
       \/ audio[h].loop
    /\ Task("timeupdate", h, NoNumber,
            [audio[h] EXCEPT !.currentTime = (@ + 1) % Duration])

\* The position reaches the end of a resource that does not loop: paused
\* becomes true and 'ended' fires; every armed once-listener runs onEnded,
\* which notifies 'complete' with the assetId it closed over.  arg counts
\* the 'complete' events delivered.
ended(h) ==
    /\ ~audio[h].paused /\ ~audio[h].loop
    /\ audio[h].currentTime = Duration - 1
    /\ Task("ended", h, audio[h].listeners,
            [audio[h] EXCEPT !.paused = TRUE, !.currentTime = Duration, !.listeners = 0])

\* The resource of a preloaded element that has not played cannot be
\* fetched or decoded: the element fires 'error'.  preload has returned by
\* then and has put no listener for 'error' on the element, so no code of
\* the plugin runs.
error(h) ==
    /\ \E id \in AssetIds : AUDIO_ASSET_BY_ASSET_ID[id] = h
    /\ audio[h].paused /\ audio[h].currentTime = 0 /\ audio[h].listeners = 0
    /\ Task("error", h, NoNumber, audio[h])

-----------------------------------------------------------------------------
Next ==
    \/ \E id \in AssetIds, path \in AssetPaths, v \in PreloadVolumes : preload(id, path, v)
    \/ \E id \in AssetIds, t \in Times \cup {NoNumber} : play(id, t)
    \/ \E id \in AssetIds : loop(id)
    \/ \E id \in AssetIds : stop(id)
    \/ \E id \in AssetIds : unload(id)
    \/ \E id \in AssetIds : pause(id)
    \/ \E id \in AssetIds : resume(id)
    \/ \E id \in AssetIds, t \in Times : setCurrentTime(id, t)
    \/ \E id \in AssetIds : getCurrentTime(id)
    \/ \E id \in AssetIds, d \in Durations : getDuration(id, d)
    \/ \E id \in AssetIds : isPlaying(id)
    \/ \E id \in AssetIds : isPreloaded(id)
    \/ \E id \in AssetIds, v \in Volumes : setVolume(id, v)
    \/ \E id \in AssetIds, r \in Rates : setRate(id, r)
    \/ clearCache
    \/ configure
    \/ playContinue
    \/ loopContinue
    \/ unloadContinue
    \/ \E h \in Handles : timeupdate(h)
    \/ \E h \in Handles : ended(h)
    \/ \E h \in Handles : error(h)

Spec == Init /\ [][Next]_vars

\* Playback and its interleavings on one identifier.
NextPlayback ==
    \/ \E path \in AssetPaths : preload("a", path, NoNumber)
    \/ \E t \in Times \cup {NoNumber} : play("a", t)
    \/ loop("a")
    \/ stop("a")
    \/ unload("a")
    \/ pause("a")
    \/ resume("a")
    \/ playContinue
    \/ loopContinue
    \/ unloadContinue
    \/ \E h \in Handles : timeupdate(h)
    \/ \E h \in Handles : ended(h)

SpecPlayback == Init /\ [][NextPlayback]_vars

\* The state machine of one registered asset: playback without unload.
NextAsset ==
    \/ \E path \in AssetPaths : preload("a", path, NoNumber)
    \/ \E t \in Times \cup {NoNumber} : play("a", t)
    \/ loop("a")
    \/ stop("a")
    \/ pause("a")
    \/ resume("a")
    \/ \E t \in Times : setCurrentTime("a", t)
    \/ playContinue
    \/ loopContinue
    \/ \E h \in Handles : timeupdate(h)
    \/ \E h \in Handles : ended(h)

SpecAsset == Init /\ [][NextAsset]_vars

\* The registry: registration, removal and lookup under every identifier.
NextRegistry ==
    \/ \E id \in AssetIds, path \in AssetPaths : preload(id, path, NoNumber)
    \/ \E id \in AssetIds : unload(id)
    \/ \E id \in AssetIds : isPreloaded(id)
    \/ \E id \in AssetIds : play(id, NoNumber)
    \/ \E id \in AssetIds : loop(id)
    \/ playContinue
    \/ loopContinue
    \/ unloadContinue

SpecRegistry == Init /\ [][NextRegistry]_vars

\* Every operation that looks an asset up, on an identifier that comes and goes.
NextLookup ==
    \/ \E path \in AssetPaths : preload("a", path, NoNumber)
    \/ play("a", NoNumber)
    \/ loop("a")
    \/ pause("a")
    \/ resume("a")
    \/ stop("a")
    \/ unload("a")
    \/ setCurrentTime("a", 0)
    \/ getCurrentTime("a")
    \/ getDuration("a", Duration)
    \/ \E v \in {NoNumber, DefaultVolume} : setVolume("a", v)
    \/ \E r \in {NoNumber, DefaultRate} : setRate("a", r)
    \/ isPlaying("a")
    \/ playContinue
    \/ loopContinue
    \/ unloadContinue

SpecLookup == Init /\ [][NextLookup]_vars

\* Volume and rate of registered assets.
NextVolume ==
    \/ \E id \in AssetIds, v \in PreloadVolumes : preload(id, "x.mp3", v)
    \/ \E id \in AssetIds : unload(id)
    \/ \E id \in AssetIds, v \in Volumes : setVolume(id, v)
    \/ \E id \in AssetIds, r \in Rates : setRate(id, r)
    \/ unloadContinue

SpecVolume == Init /\ [][NextVolume]_vars

\* Queries and settings on one asset in every playback state.
NextQuery ==
    \/ preload("a", "x.mp3", NoNumber)
    \/ play("a", NoNumber)
    \/ loop("a")
    \/ pause("a")
    \/ \E id \in AssetIds : getCurrentTime(id)
    \/ \E id \in AssetIds, d \in Durations : getDuration(id, d)
    \/ \E id \in AssetIds : isPlaying(id)
    \/ \E id \in AssetIds : isPreloaded(id)
    \/ \E id \in AssetIds, v \in Volumes : setVolume(id, v)
    \/ \E id \in AssetIds, r \in Rates : setRate(id, r)
    \/ clearCache
    \/ configure
    \/ playContinue
    \/ loopContinue
    \/ \E h \in Handles : timeupdate(h)

SpecQuery == Init /\ [][NextQuery]_vars

\* Registration when the resource may fail to load.
NextLoad ==
    \/ \E id \in AssetIds, path \in AssetPaths : preload(id, path, NoNumber)
    \/ \E id \in AssetIds : isPreloaded(id)
    \/ \E id \in AssetIds : isPlaying(id)
    \/ \E id \in AssetIds : unload(id)
    \/ unloadContinue
    \/ \E h \in Handles : error(h)

SpecLoad == Init /\ [][NextLoad]_vars

TypeOK ==
    /\ AUDIO_ASSET_BY_ASSET_ID \in [AssetIds -> 0 .. MaxHandles]
    /\ \A h \in Handles : audio[h].currentTime \in 0 .. Duration
    /\ Len(microtasks) <= MaxQueue

-----------------------------------------------------------------------------
(* Properties of playback (SpecPlayback) *)

Registered(assetId) == AUDIO_ASSET_BY_ASSET_ID[assetId] # NoHandle

\* PREPARED: backend paused, loop flag false, position 0.
Prepared(a) == a.paused /\ ~a.loop /\ a.currentTime = 0

\* C1: every natural end of an unlooped playback delivers exactly one
\* 'complete' event for the asset, never zero and never more than one.
C1_ExactlyOneComplete == last.op = "ended" => last.arg = 1

\* C2: when the last control call issued on an identifier is a stop that was
\* issued while a play or loop on it was still suspended, the asset is
\* PREPARED once no call on it is in flight any more.
C2_StopWins ==
    \A id \in AssetIds :
        (stopRaced[id] /\ Registered(id) /\ ~InFlight(id))
            => Prepared(audio[AUDIO_ASSET_BY_ASSET_ID[id]])

\* C3: once every call has settled, an audio element that the registry does
\* not hold is not playing, and no 'complete' event comes from an element
\* that the registry does not hold.
C3_NoUseAfterUnload ==
    /\ microtasks = <<>> =>
          \A h \in Handles :
              (\A id \in AssetIds : AUDIO_ASSET_BY_ASSET_ID[id] # h) => audio[h].paused
    /\ (last.op = "ended" /\ last.arg > 0) => AUDIO_ASSET_BY_ASSET_ID[last.assetId] = last.ret

\* C8: play(id, time) suspends with the requested time (0 when omitted), and
\* when it continues the element plays, does not loop and stands at that
\* time, whatever its state was before.
C8_PlayRestarts ==
    /\ (last.op = "play" /\ last.err = "none") =>
          /\ microtasks # <<>>
          /\ microtasks[Len(microtasks)].time = (IF IsNumber(last.arg) THEN last.arg ELSE 0)
    /\ last.op = "play.then" =>
          /\ ~audio[last.ret].paused
          /\ ~audio[last.ret].loop
          /\ audio[last.ret].currentTime = last.arg

\* A second play with time 1 has continued on an element that kept the
\* listener of the first.
C8_Witness ==
    /\ last.op = "play.then" /\ last.arg = 1
    /\ audio[last.ret].listeners = 2
    /\ AUDIO_ASSET_BY_ASSET_ID[last.assetId] = last.ret

\* C9: while the asset registered under an identifier is in looped playback
\* (from the continuation of loop until the next stop or unload), no
\* 'complete' event carrying that identifier is delivered.
C9_LoopNeverCompletes ==
    ~ /\ last.op = "ended" /\ last.arg > 0
      /\ Registered(last.assetId)
      /\ audio[AUDIO_ASSET_BY_ASSET_ID[last.assetId]].loop

-----------------------------------------------------------------------------
(* Properties of the registry and of argument checking *)

\* C4: a preload of an identifier that is registered fails with
\* DuplicateAsset and changes neither the registry nor any audio element.
C4_DuplicatePreload ==
    [][(last'.op = "preload" /\ Registered(last'.assetId))
          => /\ last'.err = "DuplicateAsset"
             /\ UNCHANGED <<AUDIO_ASSET_BY_ASSET_ID, audio, microtasks>>]_vars

\* A duplicate preload was refused while the registered asset was playing.
C4_Witness ==
    /\ last.op = "preload" /\ last.err = "DuplicateAsset"
    /\ ~audio[AUDIO_ASSET_BY_ASSET_ID[last.assetId]].paused

LookupOps ==
    {"play", "loop", "pause", "resume", "stop", "unload", "setCurrentTime",
     "getCurrentTime", "getDuration", "setVolume", "setRate", "isPlaying"}

\* The call just issued is one of the twelve operations on a well-formed
\* identifier that is not registered.
NotRegisteredCall ==
    /\ last'.op \in LookupOps
    /\ checkAssetId(last'.assetId) = "none"
    /\ ~Registered(last'.assetId)

NotFoundUnchanged ==
    /\ last'.err = "AssetNotFound"
    /\ UNCHANGED <<AUDIO_ASSET_BY_ASSET_ID, audio>>

\* A rejected unload continues without touching the registry.
RejectedUnloadUnchanged ==
    (last'.op = "unload.then" /\ last'.err # "none")
        => /\ last'.err = "AssetNotFound"
           /\ UNCHANGED <<AUDIO_ASSET_BY_ASSET_ID, audio>>

\* C5 as stated: each of the twelve operations on a well-formed identifier
\* that is not registered fails with AssetNotFound and changes neither the
\* registry nor any asset.
C5_NotFound_AsStated ==
    [][(NotRegisteredCall => NotFoundUnchanged) /\ RejectedUnloadUnchanged]_vars

\* C5 amended: the same, where setVolume and setRate are given a number; a
\* volume or rate that is not a number is rejected before the lookup.
C5_NotFound ==
    [][/\ (NotRegisteredCall /\ (last'.op \in {"setVolume", "setRate"} => IsNumber(last'.arg)))
            => NotFoundUnchanged
       /\ RejectedUnloadUnchanged]_vars

\* play failed with AssetNotFound on an identifier that was preloaded and
\* has been unloaded since: the element it had is still playing.
C5_Witness ==
    /\ last.op = "play" /\ last.err = "AssetNotFound"
    /\ \E h \in Handles : ~audio[h].paused

\* C6: every key of the registry is a non-empty text token.
C6_KeysWellFormed ==
    \A id \in AssetIds : Registered(id) => checkAssetId(id) = "none"

\* C7: on a registered asset setVolume outside [0,1] fails with
\* InvalidVolume, setRate outside [0.25,4] fails with InvalidRate, a failed
\* call leaves the stored value alone and an accepted value is stored as is.
C7_RangeChecked ==
    LET h == AUDIO_ASSET_BY_ASSET_ID[last.assetId] IN
    /\ (last.op = "setVolume" /\ IsNumber(last.arg) /\ getAudioAssetErr(last.assetId) = "none")
          => IF last.arg < MinVolume \/ last.arg > MaxVolume
             THEN last.err = "InvalidVolume"
             ELSE last.err = "none" /\ audio[h].volume = last.arg
    /\ (last.op = "setRate" /\ IsNumber(last.arg) /\ getAudioAssetErr(last.assetId) = "none")
          => IF last.arg < MinRate \/ last.arg > MaxRate
             THEN last.err = "InvalidRate"
             ELSE last.err = "none" /\ audio[h].playbackRate = last.arg

\* C10: isPreloaded never fails and answers found = true exactly when the
\* identifier is a key of the registry.
C10_IsPreloadedExact ==
    last.op = "isPreloaded"
        => /\ last.err = "none"
           /\ (last.ret = 1) <=> Registered(last.assetId)

-----------------------------------------------------------------------------
(* Properties of single operations *)

\* C11: when an unload of a registered identifier has completed, a preload
\* of the same identifier with a non-empty path as the next call succeeds:
\* the identifier is registered again, with a new element that is paused,
\* does not loop and stands at 0, whatever the old element was doing.
C11_ReloadAfterUnload ==
    [][\A path \in AssetPaths \ {""} :
          (/\ last.op = "unload.then" /\ last.err = "none"
           /\ preload(last.assetId, path, NoNumber))
              => /\ last'.err = "none"
                 /\ AUDIO_ASSET_BY_ASSET_ID'[last.assetId] # NoHandle
                 /\ audio'[AUDIO_ASSET_BY_ASSET_ID'[last.assetId]] = NewAudio(last.assetId)
                 /\ Prepared(audio'[AUDIO_ASSET_BY_ASSET_ID'[last.assetId]])]_vars

\* The identifier was preloaded again after an unload that a resume had
\* overtaken: the element of the first registration is still playing and
\* the registry holds a new, PREPARED one.
C11_Witness ==
    /\ last.op = "preload" /\ last.err = "none"
    /\ Prepared(audio[AUDIO_ASSET_BY_ASSET_ID[last.assetId]])
    /\ \E h \in Handles :
          /\ h # AUDIO_ASSET_BY_ASSET_ID[last.assetId]
          /\ audio[h].assetId = last.assetId
          /\ ~audio[h].paused

\* C12: pause on a registered asset succeeds; it leaves the element paused
\* with the position and the loop flag it had, changes nothing else, and
\* changes nothing at all when the element was paused already (freshly
\* preloaded, stopped, ended or paused).
C12_PauseKeepsPosition ==
    [][(last'.op = "pause" /\ getAudioAssetErr(last'.assetId) = "none")
          => LET h == AUDIO_ASSET_BY_ASSET_ID[last'.assetId] IN
             /\ last'.err = "none"
             /\ audio' = [audio EXCEPT ![h].paused = TRUE]
             /\ audio[h].paused => audio' = audio
             /\ UNCHANGED <<AUDIO_ASSET_BY_ASSET_ID, microtasks>>]_vars

\* A looping asset was paused in the middle of the resource.
C12_Witness ==
    /\ last.op = "pause" /\ last.err = "none"
    /\ audio[AUDIO_ASSET_BY_ASSET_ID[last.assetId]].paused
    /\ audio[AUDIO_ASSET_BY_ASSET_ID[last.assetId]].loop
    /\ audio[AUDIO_ASSET_BY_ASSET_ID[last.assetId]].currentTime = 1

\* C13: getDuration on a registered asset fails with NoDurationYet when the
\* element's duration is not-a-number, fails with DurationUnavailable when
\* it is infinite, returns the duration itself otherwise, and changes
\* nothing.
C13_GetDuration ==
    [][\A id \in AssetIds, d \in Durations :
          (getAudioAssetErr(id) = "none" /\ getDuration(id, d))
              => /\ last'.err = (CASE d = NaN -> "NoDurationYet"
                                   [] d = Infinity -> "DurationUnavailable"
                                   [] OTHER -> "none")
                 /\ last'.err = "none" => last'.ret = d
                 /\ UNCHANGED <<AUDIO_ASSET_BY_ASSET_ID, audio, microtasks>>]_vars

\* The duration of a playing asset was asked for before its metadata was
\* known.
C13_Witness ==
    /\ last.op = "getDuration" /\ last.err = "NoDurationYet" /\ last.arg = NaN
    /\ ~audio[AUDIO_ASSET_BY_ASSET_ID[last.assetId]].paused

FrameOps ==
    {"getCurrentTime", "getDuration", "isPlaying", "isPreloaded", "setVolume",
     "setRate", "clearCache", "configure"}

\* What the state machine of an asset is made of: playing or paused, the
\* loop flag, the position.
PlaybackState(a) == <<a.paused, a.loop, a.currentTime>>

\* C14: getCurrentTime, getDuration, isPlaying, isPreloaded, setVolume,
\* setRate, clearCache and configure, failing or not, leave the registry and
\* the playback state of every element as they were, and configure fails
\* with UnsupportedOperation whenever it is called.
C14_Frame ==
    [][/\ last'.op \in FrameOps
            => /\ UNCHANGED <<AUDIO_ASSET_BY_ASSET_ID, microtasks>>
               /\ \A h \in Handles : PlaybackState(audio'[h]) = PlaybackState(audio[h])
       /\ last'.op = "configure" => last'.err = "UnsupportedOperation"]_vars

\* The volume of an asset was set while it was looping in the middle of the
\* resource.
C14_Witness ==
    /\ last.op = "setVolume" /\ last.err = "none"
    /\ audio[AUDIO_ASSET_BY_ASSET_ID[last.assetId]].volume = last.arg
    /\ PlaybackState(audio[AUDIO_ASSET_BY_ASSET_ID[last.assetId]]) = <<FALSE, TRUE, 1>>

\* C15: resume on a registered asset that is PREPARED (the call before it
\* was the preload or a stop of that asset) or that is playing or looping
\* changes no element: it starts no playback.
C15_ResumeOnlyFromPause ==
    [][(last'.op = "resume" /\ getAudioAssetErr(last'.assetId) = "none")
          => LET h == AUDIO_ASSET_BY_ASSET_ID[last'.assetId] IN
             /\ ~audio[h].paused => UNCHANGED audio
             /\ (/\ last.op \in {"preload", "stop"}
                 /\ last.err = "none"
                 /\ last.assetId = last'.assetId
                 /\ Prepared(audio[h])) => UNCHANGED audio]_vars

\* C16: isPlaying and getCurrentTime answer from the element as it stands,
\* so a query issued while a play or loop call is suspended reads what the
\* synchronous part of that call left.  What it reads is the value before
\* the call or the value the call ends with.
C16_AtomicTransitions ==
    [][(last'.op \in {"play", "loop"} /\ last'.err = "none")
          => LET h == AUDIO_ASSET_BY_ASSET_ID[last'.assetId]
                 before == audio[h]
                 between == audio'[h]
                 after == IF last'.op = "play"
                          THEN playThen(between, microtasks'[Len(microtasks')].time)
                          ELSE loopThen(between)
             IN  /\ between.paused \in {before.paused, after.paused}
                 /\ between.currentTime \in {before.currentTime, after.currentTime}]_vars

\* C17: preload has no await, so of two preload calls issued back to back
\* the second runs when the first has stored its asset.  Two such calls with
\* the same identifier never both succeed: when the first has registered
\* its asset the second fails with DuplicateAsset and leaves the registry
\* and every element as the first left them.
C17_ConcurrentPreload ==
    [][(last.op = "preload" /\ last'.op = "preload" /\ last'.assetId = last.assetId)
          => /\ ~(last.err = "none" /\ last'.err = "none")
             /\ last.err = "none"
                   => /\ last'.err = "DuplicateAsset"
                      /\ Registered(last.assetId)
                      /\ UNCHANGED <<AUDIO_ASSET_BY_ASSET_ID, audio, microtasks>>]_vars

\* A preload was refused with DuplicateAsset while the asset registered
\* under the identifier was as the preload before it had made it, and
\* nothing else was registered.
C17_Witness ==
    /\ last.op = "preload" /\ last.err = "DuplicateAsset"
    /\ audio[AUDIO_ASSET_BY_ASSET_ID[last.assetId]] = NewAudio(last.assetId)
    /\ \A id \in AssetIds \ {last.assetId} : ~Registered(id)
    /\ microtasks = <<>>

\* C18: no audio element has two or more 'ended' listeners armed.
C18_OnePendingNotification == \A h \in Handles : audio[h].listeners <= 1

\* C20: a preload that succeeds leaves the new element with the volume it
\* was given, 0 included, and with the default volume when it was given
\* none.
C20_PreloadVolume ==
    (last.op = "preload" /\ last.err = "none" /\ checkAssetId(last.assetId) = "none")
        => audio[AUDIO_ASSET_BY_ASSET_ID[last.assetId]].volume
              = (IF IsNumber(last.arg) THEN last.arg ELSE DefaultVolume)

\* C19: when the resource given to preload has failed to load, the
\* identifier is not a key of the registry.
C19_LoadFailureUnregisters ==
    last.op = "error" => ~Registered(last.assetId)

=============================================================================
